---- MODULE Spec2Model ----
(***************************************************************************)
(* disk-scout: a model of the tree builder (src/src/scanner.rs), of the    *)
(* slice-and-dice layout engine (src/src/treemap.rs) and of the GUI state  *)
(* machine that runs a scan on a background thread (src/src/main.rs).      *)
(*                                                                         *)
(* Three specifications share the module:                                  *)
(*   SpecScan    build_tree applied to every file system of at most        *)
(*               MaxEntries directory entries;                             *)
(*   SpecLayout  generate_treemap applied to every tree of at most         *)
(*               MaxNodes nodes below the root;                            *)
(*   Spec        DiskScannerApp: frames, Scan clicks, scan threads.        *)
(***************************************************************************)
EXTENDS Integers, Sequences, FiniteSets, TLC

VARIABLES
    scan_path,      \* SpecScan: the path handed to build_tree
    fsys,           \* SpecScan: what the file system answers below scan_path
    built,          \* SpecScan: build_tree's return value, once it has run
    root,           \* SpecLayout: the FileSystemNode handed to generate_treemap
    bounds,         \* SpecLayout: the Rectangle handed to generate_treemap
    results,        \* SpecLayout: generate_treemap's return value, once it has run
    path_input,     \* Spec: DiskScannerApp.path_input
    scan_result,    \* Spec: DiskScannerApp.scan_result
    scan_receiver,  \* Spec: DiskScannerApp.scan_receiver (the channel it reads)
    layout,         \* Spec: DiskScannerApp.layout
    last_frame_size,\* Spec: DiskScannerApp.last_frame_size
    threads,        \* Spec: the spawned scan threads that have not sent yet
    channel,        \* Spec: the results sent and not yet received
    scans_started,  \* Spec: how many scans were requested so far
    result_scan     \* Spec: the scan whose result scan_result holds (0: none)

vars == <<scan_path, fsys, built, root, bounds, results, path_input,
          scan_result, scan_receiver, layout, last_frame_size, threads,
          channel, scans_started, result_scan>>

scanVars == <<scan_path, fsys, built>>
layoutVars == <<root, bounds, results>>
appVars == <<path_input, scan_result, scan_receiver, layout, last_frame_size,
             threads, channel, scans_started, result_scan>>

(***************************************************************************)
(* Bounds of the model.                                                    *)
(***************************************************************************)
\* directory entries below the scanned path, over all directories together
MaxEntries == 3
\* the largest length metadata reports for a file
MaxLen == 2

\* File names. A name stands for a string; < on names is String::cmp.
Names == {1, 2, 3}

\* The name build_tree gives a path that has no final component ("/", "."):
\* the whole path string.
WholePath == 0

None == [some |-> FALSE]
Some(v) == [some |-> TRUE, val |-> v]

(***************************************************************************)
(* Generic helpers.                                                        *)
(***************************************************************************)
Range(s) == {s[i] : i \in 1..Len(s)}

RECURSIVE SumSizes(_)
\* nodes.iter().map(|n| n.size).sum()
SumSizes(nodes) ==
    IF nodes = <<>> THEN 0 ELSE nodes[1].size + SumSizes(Tail(nodes))

(***************************************************************************)
(* The file system as one scan observes it. Every call build_tree makes    *)
(* has its answer here: fs::metadata (meta: "err", "file" or "dir", and    *)
(* len), fs::read_dir (read_dir: "err" or "ok") and the items the          *)
(* directory iterator yields, in the order it yields them (entries: an     *)
(* item is an io::Error or a DirEntry with its name and what lies there).  *)
(***************************************************************************)
MetaErrObs == [meta |-> "err", len |-> 0, read_dir |-> "err", entries |-> <<>>]
FileObs(l) == [meta |-> "file", len |-> l, read_dir |-> "err", entries |-> <<>>]
DirErrObs == [meta |-> "dir", len |-> 0, read_dir |-> "err", entries |-> <<>>]
DirObs(es) == [meta |-> "dir", len |-> 0, read_dir |-> "ok", entries |-> es]

ErrEntry == [err |-> TRUE, name |-> 0, node |-> MetaErrObs]
OkEntry(nm, o) == [err |-> FALSE, name |-> nm, node |-> o]

EntryNames(es) == {es[i].name : i \in {j \in 1..Len(es) : ~es[j].err}}

\* what lies at a path when it is first looked at
LeafObs == {MetaErrObs, DirErrObs, DirObs(<<>>)} \cup {FileObs(l) : l \in 0..MaxLen}

\* the items a directory iterator can yield for a new entry
LeafEntries == {ErrEntry} \cup {OkEntry(nm, o) : nm \in Names, o \in LeafObs}

IsOpenDir(o) == o.meta = "dir" /\ o.read_dir = "ok"

RECURSIVE DirPaths(_)
\* the directories that can be listed, each as the entry indices leading to it
DirPaths(o) ==
    IF ~IsOpenDir(o) THEN {}
    ELSE {<<>>} \cup
         UNION {{<<i>> \o p : p \in DirPaths(o.entries[i].node)}
                : i \in {j \in 1..Len(o.entries) : ~o.entries[j].err}}

RECURSIVE ObsAt(_, _)
ObsAt(o, p) == IF p = <<>> THEN o ELSE ObsAt(o.entries[p[1]].node, Tail(p))

RECURSIVE AppendEntry(_, _, _)
AppendEntry(o, p, e) ==
    IF p = <<>> THEN [o EXCEPT !.entries = Append(@, e)]
    ELSE [o EXCEPT !.entries[p[1]].node = AppendEntry(@, Tail(p), e)]

RECURSIVE EntryCount(_)
EntryCount(o) ==
    LET RECURSIVE Below(_)
        Below(i) == IF i = 0 THEN 0
                    ELSE 1 + EntryCount(o.entries[i].node) + Below(i - 1)
    IN  Below(Len(o.entries))

\* the paths a scan is started on: "/" (no final component) and "/3"
ScanPaths == {<<>>, <<3>>}

(***************************************************************************)
(* scanner.rs: build_tree                                                  *)
(***************************************************************************)
Ok(n) == [ok |-> TRUE, node |-> n, err |-> "none"]
Err(e) == [ok |-> FALSE, node |-> [name |-> 0, size |-> 0, children |-> <<>>],
           err |-> e]

\* path.file_name().unwrap_or_else(|| path.as_os_str())
FileName(path) == IF path = <<>> THEN WholePath ELSE path[Len(path)]

\* entry.path()
ChildPath(path, entry) == Append(path, entry.name)

\* a.name.cmp(&b.name)
NameLess(a, b) == a.name < b.name

RECURSIVE InsertSorted(_, _)
InsertSorted(sorted, x) ==
    IF sorted = <<>> THEN <<x>>
    ELSE IF NameLess(x, sorted[1]) THEN <<x>> \o sorted
    ELSE <<sorted[1]>> \o InsertSorted(Tail(sorted), x)

RECURSIVE SortByName(_)
SortByName(s) ==
    IF s = <<>> THEN <<>>
    ELSE InsertSorted(SortByName(SubSeq(s, 1, Len(s) - 1)), s[Len(s)])

SortChildren_Unsorted(children) == children
\* children.sort_by(|a, b| a.name.cmp(&b.name))
SortChildren(children) == SortByName(children)

AddChild_NoTotal(acc, child) ==
    [acc EXCEPT !.children = Append(@, child)]
\* Ok(child_node) => { total_size += child_node.size; children.push(child_node) }
AddChild(acc, child) ==
    [acc EXCEPT !.total = @ + child.size, !.children = Append(@, child)]

OnChildError_Propagate(acc, e) == [acc EXCEPT !.failed = TRUE, !.err = e]
\* Err(e) => eprintln!(..): the entry is skipped, the loop goes on
OnChildError(acc, e) == acc

\* what the loop would do if an error item were skipped like a failed child
OnEntryError_Skip(acc) == acc
\* let entry = entry?;  -- an io::Error item ends build_tree with that error
OnEntryError(acc) == [acc EXCEPT !.failed = TRUE, !.err = "entry"]

\* FileSystemNode { name, size: metadata.len(), children: Vec::new() }
FileNode(name, metadata) ==
    [name |-> name, size |-> metadata.len, children |-> <<>>]

\* FileSystemNode { name, size: total_size, children }
DirNode(name, acc) ==
    [name |-> name, size |-> acc.total, children |-> SortChildren(acc.children)]

RECURSIVE build_tree(_, _), ScanEntries(_, _, _, _)
\* the for loop over fs::read_dir(path)?, from item i on
ScanEntries(path, entries, i, acc) ==
    IF acc.failed \/ i > Len(entries) THEN acc
    ELSE IF entries[i].err
         THEN ScanEntries(path, entries, i + 1, OnEntryError(acc))
    ELSE LET r == build_tree(ChildPath(path, entries[i]), entries[i].node)
         IN  ScanEntries(path, entries, i + 1,
                 IF r.ok THEN AddChild(acc, r.node)
                 ELSE OnChildError(acc, r.err))

build_tree(path, o) ==
    IF o.meta = "err" THEN Err("metadata")
    ELSE IF o.meta = "dir"
         THEN IF o.read_dir = "err" THEN Err("read_dir")
              ELSE LET acc == ScanEntries(path, o.entries, 1,
                                  [children |-> <<>>, total |-> 0,
                                   failed |-> FALSE, err |-> "none"])
                   IN  IF acc.failed THEN Err(acc.err)
                       ELSE Ok(DirNode(FileName(path), acc))
    ELSE Ok(FileNode(FileName(path), o))

\* the directories below the scanned path gain an entry before the scan reads
\* them: what fs::read_dir and fs::metadata will answer
FsAddEntry ==
    /\ ~built.some
    /\ EntryCount(fsys) < MaxEntries
    /\ \E p \in DirPaths(fsys), e \in LeafEntries :
          /\ e.err \/ e.name \notin EntryNames(ObsAt(fsys, p).entries)
          /\ fsys' = AppendEntry(fsys, p, e)
    /\ UNCHANGED <<scan_path, built, layoutVars, appVars>>

\* one call of build_tree on the scanned path
RunBuildTree ==
    /\ ~built.some
    /\ built' = Some(build_tree(scan_path, fsys))
    /\ UNCHANGED <<scan_path, fsys, layoutVars, appVars>>

\* DiskScannerApp::default(); no scan thread exists yet
InitApp ==
    /\ path_input = <<>>
    /\ scan_result = None
    /\ scan_receiver = None
    /\ layout = None
    /\ last_frame_size = <<0, 0>>
    /\ threads = {}
    /\ channel = {}
    /\ scans_started = 0
    /\ result_scan = 0

InitLayoutIdle ==
    /\ root = [name |-> WholePath, size |-> 0, children |-> <<>>]
    /\ bounds = [x |-> 0, y |-> 0, width |-> 0, height |-> 0]
    /\ results = None

InitScanIdle ==
    /\ scan_path = <<>>
    /\ fsys = MetaErrObs
    /\ built = None

InitScan ==
    /\ scan_path \in ScanPaths
    /\ fsys \in LeafObs
    /\ built = None
    /\ InitLayoutIdle
    /\ InitApp

NextScan == FsAddEntry \/ RunBuildTree

SpecScan == InitScan /\ [][NextScan]_vars

(***************************************************************************)
(* Properties of build_tree (SpecScan).                                    *)
(***************************************************************************)
NamedIdx(o) == {i \in 1..Len(o.entries) : ~o.entries[i].err}

\* fs::read_dir on the scanned path fails, or its iterator yields an error
RootEnumFails ==
    /\ fsys.meta = "dir"
    /\ \/ fsys.read_dir = "err"
       \/ \E i \in 1..Len(fsys.entries) : fsys.entries[i].err

RECURSIVE SubNodes(_)
\* a node of a built tree and all its descendants
SubNodes(n) ==
    {n} \cup UNION {SubNodes(n.children[i]) : i \in 1..Len(n.children)}

RECURSIVE LeafSum(_)
\* the sizes of the childless nodes of a built tree, added up
LeafSum(n) ==
    LET RECURSIVE Over(_)
        Over(i) == IF i = 0 THEN 0 ELSE LeafSum(n.children[i]) + Over(i - 1)
    IN  IF n.children = <<>> THEN n.size ELSE Over(Len(n.children))

\* C1 as stated: whenever the metadata of the scanned path can be read,
\* build_tree returns a tree.
C1_ErrOnlyIfRootStatFails ==
    (built.some /\ fsys.meta # "err") => built.val.ok

\* C1 amended: build_tree returns an error exactly when the metadata of the
\* scanned path cannot be read, or the scanned path is a directory and
\* read_dir on it fails or its iterator yields an error; no failure below an
\* entry of the scanned directory makes build_tree fail.
C1_ErrOnlyFromRootLevel ==
    built.some =>
        (~built.val.ok <=> (fsys.meta = "err" \/ RootEnumFails))

\* C1 witness: a tree was returned although the scan of an entry failed, in
\* one run for each way an entry can fail.
C1_Witness ==
    /\ built.some /\ built.val.ok
    /\ IsOpenDir(fsys)
    /\ \E i \in NamedIdx(fsys) :
          LET o == fsys.entries[i].node
          IN  IsOpenDir(o) /\ \E j \in 1..Len(o.entries) : o.entries[j].err
    /\ \E i \in NamedIdx(fsys) : fsys.entries[i].node.meta = "err"

RECURSIVE C2Dir(_, _, _)
\* directory o, listed at path, became node: the node's children are the
\* entries whose own build succeeds, its size is their sizes added up, and
\* every listed sub-directory is among the children and is as C2 says too
C2Dir(path, o, node) ==
    LET child(i) == build_tree(ChildPath(path, o.entries[i]), o.entries[i].node)
        kept == {i \in NamedIdx(o) : child(i).ok}
        RECURSIVE KeptSize(_)
        KeptSize(i) == IF i = 0 THEN 0
                       ELSE (IF i \in kept THEN child(i).node.size ELSE 0)
                            + KeptSize(i - 1)
    IN  /\ {c.name : c \in Range(node.children)} = {o.entries[i].name : i \in kept}
        /\ Len(node.children) = Cardinality(kept)
        /\ node.size = KeptSize(Len(o.entries))
        /\ \A i \in NamedIdx(o) :
              IsOpenDir(o.entries[i].node) =>
                  \E c \in Range(node.children) :
                      /\ c.name = o.entries[i].name
                      /\ C2Dir(ChildPath(path, o.entries[i]), o.entries[i].node, c)

\* C2: in every directory that is listed during a scan, a failure on one
\* entry only omits that entry; the other entries that can be built are the
\* directory's children, its size counts exactly those, and neither the
\* directory nor an ancestor is dropped or turned into an error.
C2_EntryFailureOnlyOmitsEntry ==
    (built.some /\ IsOpenDir(fsys)) =>
        (built.val.ok /\ C2Dir(scan_path, fsys, built.val.node))

RECURSIVE C3Node(_, _)
\* node was built from o: a file has its reported length and no children, a
\* directory has the sum of its children's sizes
C3Node(o, node) ==
    IF o.meta = "file"
    THEN node.size = o.len /\ node.children = <<>>
    ELSE /\ o.meta = "dir"
         /\ node.size = SumSizes(node.children)
         /\ \A c \in Range(node.children) :
               \E i \in NamedIdx(o) :
                   o.entries[i].name = c.name /\ C3Node(o.entries[i].node, c)

\* C3: in every tree build_tree returns, a directory's size is the sum of
\* its children's sizes, the root's size is the sum of the leaves' sizes, and
\* a file has the length its metadata reports and no children.
C3_SizesAreSums ==
    (built.some /\ built.val.ok) =>
        /\ C3Node(fsys, built.val.node)
        /\ built.val.node.size = LeafSum(built.val.node)

\* C3 witness: a returned tree with a non-empty sub-directory beside another
\* entry, the files having different non-zero lengths.
C3_Witness ==
    /\ built.some /\ built.val.ok
    /\ Len(built.val.node.children) >= 2
    /\ \E c \in Range(built.val.node.children) :
          c.children # <<>> /\ c.size > 0 /\ c.size < built.val.node.size

\* C4: in every tree build_tree returns, the children of every directory
\* are in ascending order of name.
C4_ChildrenSortedByName ==
    (built.some /\ built.val.ok) =>
        \A n \in SubNodes(built.val.node) :
            \A i, j \in 1..Len(n.children) :
                i < j => n.children[i].name < n.children[j].name

\* C4 witness: the directory iterator yielded two kept entries in descending
\* order of name, with a skipped entry between them.
C4_Witness ==
    /\ built.some /\ built.val.ok
    /\ Len(fsys.entries) = 3
    /\ ~fsys.entries[1].err /\ ~fsys.entries[3].err
    /\ fsys.entries[1].name > fsys.entries[3].name
    /\ fsys.entries[2].node.meta = "err" /\ ~fsys.entries[2].err
    /\ Len(built.val.node.children) = 2

(***************************************************************************)
(* treemap.rs: Rectangle arithmetic. An f64 is modelled by the exact       *)
(* rational n/d it stands for (d > 0, lowest terms); d = 0 stands for a    *)
(* value that is not finite: 1/0 for inf, 0/0 for NaN. Rounding is not     *)
(* modelled, so equalities below are those of exact arithmetic, which the  *)
(* program meets within the tolerance its own test uses (1e-9).            *)
(***************************************************************************)
\* layout trees: nodes below the root, and the largest size of a node
MaxNodes == 4
MaxSize == 2

RECURSIVE GCD(_, _)
GCD(a, b) == IF b = 0 THEN a ELSE GCD(b, a % b)

Norm(n, d) ==
    IF d = 0 THEN [n |-> IF n = 0 THEN 0 ELSE 1, d |-> 0]
    ELSE LET g == GCD(n, d) IN [n |-> n \div g, d |-> d \div g]

\* `as f64` of an integer
F64(k) == [n |-> k, d |-> 1]

\* a / b
FDiv(a, b) == Norm(a.n * b.d, a.d * b.n)

\* a * b
FMul(a, b) == Norm(a.n * b.n, a.d * b.d)

\* a + b
FAdd(a, b) ==
    IF a.d = 0 \/ b.d = 0
    THEN (IF (a.d = 0 /\ a.n = 0) \/ (b.d = 0 /\ b.n = 0)
          THEN Norm(0, 0) ELSE Norm(1, 0))
    ELSE Norm(a.n * b.d + b.n * a.d, a.d * b.d)

Rect(x, y, w, h) == [x |-> x, y |-> y, width |-> w, height |-> h]

\* the rectangle layouts are asked for in SpecLayout: away from the origin and
\* not square, so that x and y, width and height cannot stand in for each
\* other (main.rs asks for the window at the origin, see Update)
BoundsSet == {Rect(F64(1), F64(2), F64(6), F64(4))}

(***************************************************************************)
(* treemap.rs: generate_treemap and calculate_layout                       *)
(***************************************************************************)
\* b.size.cmp(&a.size)
SizeGreater(a, b) == a.size > b.size

RECURSIVE InsertBySize(_, _)
InsertBySize(sorted, x) ==
    IF sorted = <<>> THEN <<x>>
    ELSE IF SizeGreater(x, sorted[1]) THEN <<x>> \o sorted
    ELSE <<sorted[1]>> \o InsertBySize(Tail(sorted), x)

RECURSIVE SortedNodes(_)
\* let mut sorted_nodes = nodes.to_vec(); sorted_nodes.sort_by(size, descending)
\* -- computed by calculate_layout and never read
SortedNodes(nodes) ==
    IF nodes = <<>> THEN <<>>
    ELSE InsertBySize(SortedNodes(SubSeq(nodes, 1, Len(nodes) - 1)),
                      nodes[Len(nodes)])

LoopNodes_BySize(nodes) == SortedNodes(nodes)
\* for node in nodes
LoopNodes(nodes) == nodes

IsZeroTotal_Never(total_size) == FALSE
\* if total_size == 0.0 { return; }
IsZeroTotal(total_size) == total_size = F64(0)

Proportion_IntegerDivision(node, total_size) ==
    F64(node.size \div (IF total_size.n = 0 THEN 1 ELSE total_size.n))
\* node.size as f64 / total_size
Proportion(node, total_size) == FDiv(F64(node.size), total_size)

\* the Rectangle of one node: a vertical slice keeps the height, a horizontal
\* slice keeps the width
ChildBounds(b, cx, cy, proportion, slice_vertically) ==
    IF slice_vertically
    THEN Rect(cx, cy, FMul(b.width, proportion), b.height)
    ELSE Rect(cx, cy, b.width, FMul(b.height, proportion))

Advance_Stay(current, extent) == current
\* current_x += width;  current_y += height;
Advance(current, extent) == FAdd(current, extent)

NextAxis_Same(slice_vertically) == slice_vertically
\* !slice_vertically
NextAxis(slice_vertically) == ~slice_vertically

\* TreemapNode { rect: child_bounds, name: node.name.clone(), size: node.size, depth }
TreemapNode(rect, node, depth) ==
    [rect |-> rect, name |-> node.name, size |-> node.size, depth |-> depth]

RECURSIVE calculate_layout(_, _, _, _, _), LayoutLoop(_, _, _, _, _, _, _, _, _)
\* the for loop of calculate_layout, from node i on
LayoutLoop(nodes, i, total_size, b, res, slice_vertically, depth, cx, cy) ==
    IF i > Len(nodes) THEN res
    ELSE LET node == nodes[i]
             child_bounds == ChildBounds(b, cx, cy, Proportion(node, total_size),
                                         slice_vertically)
             pushed == Append(res, TreemapNode(child_bounds, node, depth))
             after == IF node.children # <<>>
                      THEN calculate_layout(node.children, child_bounds, pushed,
                                            NextAxis(slice_vertically), depth + 1)
                      ELSE pushed
         IN  LayoutLoop(nodes, i + 1, total_size, b, after, slice_vertically, depth,
                        IF slice_vertically THEN Advance(cx, child_bounds.width)
                        ELSE cx,
                        IF slice_vertically THEN cy
                        ELSE Advance(cy, child_bounds.height))

calculate_layout(nodes, b, res, slice_vertically, depth) ==
    IF nodes = <<>> THEN res
    ELSE LET total_size == F64(SumSizes(nodes))
         IN  IF IsZeroTotal(total_size) THEN res
             ELSE LayoutLoop(LoopNodes(nodes), 1, total_size, b, res,
                             slice_vertically, depth, b.x, b.y)

generate_treemap(node, b) == calculate_layout(node.children, b, <<>>, TRUE, 1)

(***************************************************************************)
(* SpecLayout: generate_treemap on every tree of at most MaxNodes nodes    *)
(* below the root, of any sizes and any child order.                       *)
(***************************************************************************)
RECURSIVE NodePaths(_)
\* every node of a tree, as the child indices leading to it
NodePaths(n) ==
    {<<>>} \cup UNION {{<<i>> \o p : p \in NodePaths(n.children[i])}
                       : i \in 1..Len(n.children)}

RECURSIVE PushChild(_, _, _)
\* children.push(c) at the node p leads to
PushChild(n, p, c) ==
    IF p = <<>> THEN [n EXCEPT !.children = Append(@, c)]
    ELSE [n EXCEPT !.children[p[1]] = PushChild(@, Tail(p), c)]

\* a FileSystemNode literal gains a child, as a caller of generate_treemap
\* (the test, the app) may hand it over; the n-th node made is named n, so
\* names tell the nodes of a tree apart and siblings are stored by name
TreeAddNode ==
    /\ ~results.some
    /\ Cardinality(NodePaths(root)) <= MaxNodes
    /\ \E p \in NodePaths(root), sz \in 0..MaxSize :
          root' = PushChild(root, p, [name |-> Cardinality(NodePaths(root)),
                                      size |-> sz, children |-> <<>>])
    /\ UNCHANGED <<bounds, results, scanVars, appVars>>

\* one call of generate_treemap, on a rectangle of BoundsSet
RunGenerateTreemap ==
    /\ ~results.some
    /\ \E b \in BoundsSet :
          /\ bounds' = b
          /\ results' = Some(generate_treemap(root, b))
    /\ UNCHANGED <<root, scanVars, appVars>>

InitLayout ==
    /\ InitLayoutIdle
    /\ InitScanIdle
    /\ InitApp

NextLayout == TreeAddNode \/ RunGenerateTreemap

SpecLayout == InitLayout /\ [][NextLayout]_vars

(***************************************************************************)
(* Properties of generate_treemap (SpecLayout).                            *)
(***************************************************************************)
Emitted == results.val
RootTotal == SumSizes(root.children)

\* every node below the root that has children has their sizes added up
SizesConsistent ==
    \A i \in 1..Len(root.children) :
        \A n \in SubNodes(root.children[i]) :
            n.children # <<>> => n.size = SumSizes(n.children)

\* the emitted node that holds node i: the nearest one before it that is one
\* level up (0: the bounds)
ParentIdx(i) ==
    LET ups == {j \in 1..(i - 1) : Emitted[j].depth = Emitted[i].depth - 1}
    IN  IF ups = {} THEN 0 ELSE CHOOSE j \in ups : \A k \in ups : k <= j

ParentRect(i) == IF ParentIdx(i) = 0 THEN bounds ELSE Emitted[ParentIdx(i)].rect

\* the emitted nodes of the sibling group of node i that come before it
\* (nodes between a node and its parent hang below the same parent)
Before(i) ==
    {j \in (ParentIdx(i) + 1)..(i - 1) : Emitted[j].depth = Emitted[i].depth}

\* the emitted nodes of the sibling group of node i
Group(i) ==
    {j \in 1..Len(Emitted) :
        Emitted[j].depth = Emitted[i].depth /\ ParentIdx(j) = ParentIdx(i)}

RECURSIVE WidthsOf(_, _), HeightsOf(_, _), SizesOf(_, _)
\* the widths (heights, sizes) of the emitted nodes of J at indices up to k
WidthsOf(J, k) ==
    IF k = 0 THEN F64(0)
    ELSE IF k \in J THEN FAdd(WidthsOf(J, k - 1), Emitted[k].rect.width)
    ELSE WidthsOf(J, k - 1)
HeightsOf(J, k) ==
    IF k = 0 THEN F64(0)
    ELSE IF k \in J THEN FAdd(HeightsOf(J, k - 1), Emitted[k].rect.height)
    ELSE HeightsOf(J, k - 1)
SizesOf(J, k) ==
    IF k = 0 THEN 0
    ELSE IF k \in J THEN SizesOf(J, k - 1) + Emitted[k].size
    ELSE SizesOf(J, k - 1)

RECURSIVE PreOrder(_, _)
\* the nodes below a sibling group in pre-order of the stored child order,
\* each with its nesting level; a group whose sizes add up to 0 is left out
\* with everything below it
PreOrder(nodes, level) ==
    LET RECURSIVE From(_)
        From(i) ==
            IF i > Len(nodes) THEN <<>>
            ELSE <<[name |-> nodes[i].name, size |-> nodes[i].size,
                    depth |-> level]>>
                 \o PreOrder(nodes[i].children, level + 1) \o From(i + 1)
    IN  IF SumSizes(nodes) = 0 THEN <<>> ELSE From(1)

\* C5: for a tree whose directory sizes are the sums of their children's
\* sizes and whose root children have a non-zero total, every emitted node
\* has area bounds.width * bounds.height * size / total.
C5_AreaProportionalToSize ==
    (results.some /\ RootTotal # 0 /\ SizesConsistent) =>
        \A i \in 1..Len(Emitted) :
            FMul(Emitted[i].rect.width, Emitted[i].rect.height)
                = FMul(FMul(bounds.width, bounds.height),
                       FDiv(F64(Emitted[i].size), F64(RootTotal)))

\* C5 witness: a consistent tree with a node at depth 2 that is smaller than
\* its parent, which is smaller than the whole.
C5_Witness ==
    /\ results.some /\ RootTotal # 0 /\ SizesConsistent
    /\ \E i \in 1..Len(Emitted) :
          /\ Emitted[i].depth = 2 /\ Emitted[i].size > 0
          /\ Emitted[i].size < Emitted[ParentIdx(i)].size
          /\ Emitted[ParentIdx(i)].size < RootTotal

Depth1 == SelectSeq(Emitted, LAMBDA e : e.depth = 1)
Depth1Idx == {i \in 1..Len(Emitted) : Emitted[i].depth = 1}

\* C6: when the root's children have a non-zero total, the depth-1
\* rectangles tile the bounds left to right: width bounds.width * size /
\* total, full height, y of the bounds, x after the widths before it, and the
\* widths add up to bounds.width.
C6_Depth1TilesLeftToRight ==
    (results.some /\ RootTotal # 0) =>
        LET d1 == Depth1
            idx == Depth1Idx
            total == F64(RootTotal)
        IN  /\ Len(d1) = Len(root.children)
            /\ \A i \in 1..Len(d1) :
                  /\ d1[i].rect.width =
                         FMul(bounds.width,
                              FDiv(F64(root.children[i].size), total))
                  /\ d1[i].rect.height = bounds.height
                  /\ d1[i].rect.y = bounds.y
            /\ \A i \in idx :
                  Emitted[i].rect.x = FAdd(bounds.x, WidthsOf(idx, i - 1))
            /\ WidthsOf(idx, Len(Emitted)) = bounds.width

\* C6 witness: three root children, neighbours of different non-zero sizes,
\* the first with an emitted child of its own, in bounds away from the origin.
C6_Witness ==
    /\ results.some
    /\ Len(root.children) = 3 /\ Len(Emitted) = 4
    /\ Len(root.children[1].children) = 1
    /\ root.children[2].size # root.children[3].size
    /\ root.children[3].size > 0
    /\ root.children[1].size # root.children[2].size
    /\ root.children[1].size > 0 /\ root.children[2].size > 0
    /\ bounds.x # F64(0)

C8_DepthAndAxis ==
    results.some =>
        LET pre == PreOrder(root.children, 1)
        IN  /\ Len(Emitted) = Len(pre)
            /\ \A i \in 1..Len(Emitted) :
                  LET e == Emitted[i]
                      pr == ParentRect(i)
                      before == Before(i)
                  IN  /\ e.depth = pre[i].depth
                      /\ e.depth >= 1
                      /\ e.depth > 1 => ParentIdx(i) # 0
                      /\ IF e.depth % 2 = 1
                         THEN /\ e.rect.height = pr.height
                              /\ e.rect.y = pr.y
                              /\ e.rect.x = FAdd(pr.x, WidthsOf(before, i))
                         ELSE /\ e.rect.width = pr.width
                              /\ e.rect.x = pr.x
                              /\ e.rect.y = FAdd(pr.y, HeightsOf(before, i))

\* C8 witness: a node at depth 3 that is the second of its sibling group and
\* narrower than its parent at depth 2, which fills the bounds.
C8_Witness ==
    /\ results.some
    /\ \E i \in 1..Len(Emitted) :
          /\ Emitted[i].depth = 3
          /\ Emitted[i].size > 0
          /\ \E j \in Group(i) : j < i /\ Emitted[j].size > 0
          /\ Emitted[i].rect.width # ParentRect(i).width
          /\ Emitted[i].rect.x # ParentRect(i).x
          /\ Emitted[i].rect.height = bounds.height

RECURSIVE EmitCount(_)
\* how many nodes below a sibling group lie in groups of non-zero total all
\* the way up
EmitCount(nodes) ==
    LET RECURSIVE Over(_)
        Over(i) == IF i = 0 THEN 0
                   ELSE 1 + EmitCount(nodes[i].children) + Over(i - 1)
    IN  IF SumSizes(nodes) = 0 THEN 0 ELSE Over(Len(nodes))

\* C9: nothing is emitted for a root without children or with children of
\* total size 0, and at any depth a sibling group whose sizes add up to 0
\* emits no node and nothing below it.
C9_ZeroGroupsEmitNothing ==
    results.some =>
        /\ (root.children = <<>> \/ RootTotal = 0) => Emitted = <<>>
        /\ \A i \in 1..Len(Emitted) :
              /\ SizesOf(Group(i), Len(Emitted)) # 0
              /\ Emitted[i].depth > 1 => ParentIdx(i) # 0
        /\ Len(Emitted) = EmitCount(root.children)

\* C9 witness: one emitted node; its children add up to 0 and are left out,
\* and so is the grandchild below them, whatever its size.
C9_Witness ==
    /\ results.some
    /\ Len(Emitted) = 1
    /\ root.children[1].children # <<>>
    /\ SumSizes(root.children[1].children) = 0
    /\ root.children[1].children[1].children # <<>>
    /\ root.children[1].children[1].children[1].size > 0

(***************************************************************************)
(* main.rs: DiskScannerApp. A frame is one call of update; a scan thread   *)
(* is the closure handed to thread::spawn. Each Scan click makes a new     *)
(* mpsc channel, named by the number of the scan; the app keeps its        *)
(* receiver in scan_receiver and the thread keeps its sender.              *)
(***************************************************************************)
\* Scan clicks in one run
MaxScans == 2

\* what the window's central panel measures: ui.available_size()
FrameSizes == {<<6, 4>>, <<3, 5>>}

\* what a scan thread may find under the path it scans: nothing, a file, a
\* directory that cannot be listed, a directory with a file, a sub-directory
\* and an unreadable entry
AppObs ==
    {MetaErrObs, FileObs(1), DirErrObs,
     DirObs(<<OkEntry(2, FileObs(1)),
              OkEntry(1, DirObs(<<OkEntry(1, FileObs(2))>>)),
              OkEntry(3, MetaErrObs)>>)}

\* the closure of thread::spawn: build_tree, then sender.send(result); the
\* send fails, and the thread panics, only if the receiver is gone
ScanThread(t) ==
    /\ t \in threads
    /\ \E o \in AppObs :
          LET result == build_tree(t.path, o)
          IN  channel' = IF scan_receiver = Some(t.chan)
                         THEN channel \cup {[chan |-> t.chan, result |-> result]}
                         ELSE channel
    /\ threads' = threads \ {t}
    /\ UNCHANGED <<path_input, scan_result, scan_receiver, layout,
                   last_frame_size, scans_started, result_scan, scanVars,
                   layoutVars>>

ScanEnabled_Always(receiver) == TRUE
\* ui.add_enabled(!scan_in_progress, ..): scan_in_progress is
\* self.scan_receiver.is_some(), read after the try_recv of the same frame
ScanEnabled(receiver) == ~receiver.some

\* fn update: one frame, in which the user may have edited the path (edited),
\* may click Scan (clicked) and the panel has size current_frame_size
Update(edited, clicked, current_frame_size) ==
    LET \* if let Ok(result) = receiver.try_recv()
        arrived == {m \in channel : scan_receiver = Some(m.chan)}
        msg == CHOOSE m \in arrived : TRUE
        received == arrived # {}
        result1 == IF received THEN Some(msg.result) ELSE scan_result
        receiver1 == IF received THEN None ELSE scan_receiver
        layout1 == IF received THEN None ELSE layout
        \* the Scan button
        starts == clicked /\ ScanEnabled(receiver1)
        chan == scans_started + 1
        \* the central panel
        layout_is_stale ==
            \/ last_frame_size # current_frame_size
            \/ (result1.some /\ ~layout1.some)
        window == Rect(F64(0), F64(0), F64(current_frame_size[1]),
                       F64(current_frame_size[2]))
    IN  /\ clicked => scans_started < MaxScans
        /\ path_input' = edited
        /\ scan_result' = result1
        /\ result_scan' = IF received THEN msg.chan ELSE result_scan
        /\ channel' = IF received THEN channel \ {msg} ELSE channel
        /\ scan_receiver' = IF starts THEN Some(chan) ELSE receiver1
        /\ threads' = IF starts
                      THEN threads \cup {[chan |-> chan, path |-> edited]}
                      ELSE threads
        /\ scans_started' = IF starts THEN chan ELSE scans_started
        /\ layout' = IF layout_is_stale /\ result1.some /\ result1.val.ok
                     THEN Some(generate_treemap(result1.val.node, window))
                     ELSE layout1
        /\ last_frame_size' = IF layout_is_stale THEN current_frame_size
                              ELSE last_frame_size
        /\ UNCHANGED <<scanVars, layoutVars>>

Frame ==
    \E edited \in ScanPaths, clicked \in BOOLEAN, size \in FrameSizes :
        Update(edited, clicked, size)

RunScanThread == \E t \in threads : ScanThread(t)

Init ==
    /\ InitApp
    /\ InitScanIdle
    /\ InitLayoutIdle

Next == Frame \/ RunScanThread

Spec == Init /\ [][Next]_vars

(***************************************************************************)
(* Properties of DiskScannerApp (Spec).                                    *)
(***************************************************************************)
\* C10: scan_result is None whenever a scan is in progress, that is whenever
\* scan_receiver is Some.
C10_NoResultWhileScanning ==
    scan_receiver.some => ~scan_result.some

\* at most one scan is in flight (a thread that has not sent, or a result
\* not yet received), it is the last one requested and scan_receiver reads
\* its channel; scan_result holds a result exactly when one was stored
C11_State ==
    /\ Cardinality(threads) + Cardinality(channel) <= 1
    /\ \A t \in threads :
          t.chan = scans_started /\ scan_receiver = Some(t.chan)
    /\ \A m \in channel :
          m.chan = scans_started /\ scan_receiver = Some(m.chan)
    /\ scan_result.some <=> result_scan > 0
    /\ result_scan <= scans_started

\* a step that starts a scan thread finds no other in flight and leaves no
\* result pending (a result that was pending is stored by that very frame,
\* before the click is looked at); a step that changes scan_result stores
\* the result of the last scan requested before it, a later scan than the
\* one whose result it replaces
C11_Step ==
    /\ scans_started' # scans_started =>
          /\ threads = {}
          /\ channel' = {}
          /\ scan_receiver.some => result_scan' = scan_receiver.val
          /\ threads' = {[chan |-> scans_started', path |-> path_input']}
          /\ scan_receiver' = Some(scans_started')
    /\ scan_result' # scan_result => result_scan' # result_scan
    /\ result_scan' # result_scan =>
          /\ result_scan' = scans_started
          /\ result_scan' > result_scan
          /\ Some(scan_result'.val) = scan_result'

\* C11: at most one background scan is in flight at any time, a scan thread
\* is started only when no result is pending, and every result stored in
\* scan_result is that of the most recently requested scan, never replaced
\* by the result of an older one.
C11_OneScanInFlight == [](C11_State) /\ [][C11_Step]_vars

\* C11 witness: a second scan was requested after the first had completed,
\* with another path, and its result is the one stored.
C11_Witness ==
    /\ scans_started = 2
    /\ result_scan = 2
    /\ scan_result.some
    /\ scan_receiver = None /\ threads = {} /\ channel = {}

====
